---- MODULE Spec2Model ----
(***************************************************************************)
(* JakOlah ML service.                                                     *)
(*                                                                         *)
(* Part I  - app/: the /api/classify-frame pipeline                        *)
(*           (YOLODetector -> crop -> FeatureExtractor -> WasteClassifier) *)
(*           orchestrated by InferenceService.process_image.               *)
(* Part II - src/: SVMClassifier.predict (single / best / ensemble).       *)
(*                                                                         *)
(* Numbers: a confidence or probability p in [0,1] is the integer          *)
(* p * Scale.  Scale is a multiple of 1000 (three decimals are exact) and  *)
(* of 12 (the mean of 1..4 vectors of thousandths is exact).               *)
(* A normalised box coordinate c is the integer c * BoxDen; BoxDen is a    *)
(* power of two, so the float products of the code are exact.              *)
(***************************************************************************)
EXTENDS Integers, Sequences, FiniteSets, TLC

Milli == 3 * 4
Scale == 1000 * Milli
BoxDen == 2 * 2 * 2

None == "None"

\* ------------------------------------------------------------------ bounds
MaxDets == 3
MaxCap == 3

\* ------------------------------------------------------- program constants
MinImageSide == 224
MinBoxSide == 50
CropPadding == 15

Min(a, b) == IF a <= b THEN a ELSE b
Max(a, b) == IF a >= b THEN a ELSE b

\* Python int(): truncation toward zero of n / d (d > 0)
PyInt(n, d) == IF n >= 0 THEN n \div d ELSE -((-n) \div d)

\* Python round(v, 3) on a value of v / Scale: nearest thousandth, ties to even
Round3(v) ==
  LET q == v \div Milli
      r == v % Milli
  IN  IF 2 * r < Milli THEN q * Milli
      ELSE IF 2 * r > Milli THEN (q + 1) * Milli
      ELSE IF q % 2 = 0 THEN q * Milli ELSE (q + 1) * Milli

\* length of the Python slice seq[a:b] of a sequence of length n
PySliceLen(a, b, n) ==
  LET norm(i) == IF i < 0 THEN Max(0, i + n) ELSE Min(i, n)
  IN  Max(0, norm(b) - norm(a))

\* ---------------------------------------------------------------- Part I
CategoryNames == <<"Organik", "Anorganik", "Lainnya">>

NoKey == "<absent>"

\* SVM stand-in: what the fitted model answers for a feature vector.  The
\* vector is named by what the crop showed; "zero" is np.zeros(960).
FeatureIds == {"A", "B", "zero", "badclassify"}
SvmRaises(f) == f = "badclassify"
SvmPredict(f) == CASE f = "A" -> 0 [] f = "B" -> 1 [] OTHER -> 2
SvmProba(f) ==
  CASE f = "A" -> <<6600, 3000, 2400>>
    [] f = "B" -> <<605, 10795, 600>>
    [] OTHER -> <<4000, 4000, 4000>>
SvmDecision(f) ==
  CASE f = "A" -> <<4, 0, -2>>
    [] f = "B" -> <<0, 6, 0>>
    [] OTHER -> <<0, 0, 0>>

\* exp(d) * 10^5 for the integers d <= 0 the softmax meets
ExpFix(d) ==
  CASE d = 0 -> 100000 [] d = -1 -> 36788 [] d = -2 -> 13534
    [] d = -3 -> 4979 [] d = -4 -> 1832 [] OTHER -> 0

Max3(v) == Max(v[1], Max(v[2], v[3]))

\* WasteClassifier._softmax, 1-D branch; the quotient rounded to 1 / Scale
Softmax(x) ==
  LET e == [i \in 1..3 |-> ExpFix(x[i] - Max3(x))]
      s == e[1] + e[2] + e[3]
  IN  [i \in 1..3 |-> (e[i] * Scale + s \div 2) \div s]

Temperature == 2

\* WasteClassifier._calibrate_scores (scores are even, so scores / T is exact)
CalibrateScores(scores) == Softmax([i \in 1..3 |-> scores[i] \div Temperature])

AllConfidences(p) == [Organik |-> p[1], Anorganik |-> p[2], Lainnya |-> p[3]]

\* WasteClassifier.classify: (category, confidence, all_confidences)
Classify(f, cap) ==
  IF SvmRaises(f)
  THEN [category |-> "Lainnya", confidence |-> 0,
        all_confidences |-> AllConfidences(<<0, 0, 0>>)]
  ELSE LET prediction == SvmPredict(f)
           probabilities ==
             CASE cap = "predict_proba" -> SvmProba(f)
               [] cap = "decision_function" -> CalibrateScores(SvmDecision(f))
               [] OTHER -> [i \in 1..3 |-> IF i = prediction + 1 THEN Scale ELSE 0]
       IN  [category |-> CategoryNames[prediction + 1],
            confidence |-> probabilities[prediction + 1],
            all_confidences |-> AllConfidences(probabilities)]

\* what a crop shows decides how the black boxes downstream behave
CropKinds == {"A", "B", "badresize", "badextract", "badclassify"}

\* preprocess_for_classification: cv2.resize may raise
PreprocessRaises(crop) == crop = "badresize"

\* FeatureExtractor.extract: an exception inside is answered with zeros
ExtractorRaises(crop) == crop = "badextract"
Extract(crop) == IF ExtractorRaises(crop) THEN "zero" ELSE crop

\* validate_image(image, min_size)
ValidateImage(image, minW, minH) ==
  ~(image.width < minW \/ image.height < minH)

\* inference.py: normalised box -> pixel box
PixelBox(box, width, height) ==
  [x |-> PyInt(box[2] * width, BoxDen),
   y |-> PyInt(box[1] * height, BoxDen),
   width |-> PyInt((box[4] - box[2]) * width, BoxDen),
   height |-> PyInt((box[3] - box[1]) * height, BoxDen)]

\* "and" where the code says "or"
TooSmall_both(bbox) == bbox.width < MinBoxSide /\ bbox.height < MinBoxSide

TooSmall(bbox) == bbox.width < MinBoxSide \/ bbox.height < MinBoxSide

\* the padded corners without max(0, .) and min(size, .)
CropRegion_unclamped(image, bbox, padding) ==
  [x1 |-> bbox.x - padding,
   y1 |-> bbox.y - padding,
   x2 |-> bbox.x + bbox.width + padding,
   y2 |-> bbox.y + bbox.height + padding]

\* crop_image: the corners of the padded region, clamped to the image
CropRegion(image, bbox, padding) ==
  [x1 |-> Max(0, bbox.x - padding),
   y1 |-> Max(0, bbox.y - padding),
   x2 |-> Min(image.width, bbox.x + bbox.width + padding),
   y2 |-> Min(image.height, bbox.y + bbox.height + padding)]

\* crop_image: number of elements of image[y1:y2, x1:x2]
CropSize(image, bbox, padding) ==
  LET c == CropRegion(image, bbox, padding)
  IN  PySliceLen(c.y1, c.y2, image.height) * PySliceLen(c.x1, c.x2, image.width) * 3

\* the hybrid rule instead of "SVM as the only classifier"
HybridTLow == 800 * Milli
HybridTOverride == 650 * Milli
ProcessDetection_hybrid(image, detection, cap) ==
  LET bbox == PixelBox(detection.box, image.width, image.height)
  IN  IF TooSmall(bbox) THEN <<>>
      ELSE IF CropSize(image, bbox, CropPadding) = 0 THEN <<>>
      ELSE IF PreprocessRaises(detection.crop) THEN <<>>
      ELSE LET c == Classify(Extract(detection.crop), cap)
               fallback == /\ c.confidence < HybridTLow
                           /\ detection.confidence > HybridTOverride
           IN  << [category |-> c.category,
                   confidence |-> IF fallback THEN Round3(detection.confidence)
                                  ELSE Round3(c.confidence),
                   classification_source |->
                     IF fallback THEN "detector_fallback" ELSE "cnn_svm",
                   bbox |-> bbox,
                   all_confidences |->
                     [k \in DOMAIN c.all_confidences |-> Round3(c.all_confidences[k])],
                   yolo_detection_confidence |-> Round3(detection.confidence)] >>

\* one iteration of the loop of process_image: <<>> (continue) or <<result>>
ProcessDetection(image, detection, cap) ==
  LET bbox == PixelBox(detection.box, image.width, image.height)
  IN  IF TooSmall(bbox) THEN <<>>
      ELSE IF CropSize(image, bbox, CropPadding) = 0 THEN <<>>
      ELSE IF PreprocessRaises(detection.crop) THEN <<>>
      ELSE LET features == Extract(detection.crop)
               c == Classify(features, cap)
           IN  << [category |-> c.category,
                   confidence |-> Round3(c.confidence),
                   classification_source |-> "cnn_svm",
                   bbox |-> bbox,
                   all_confidences |->
                     [k \in DOMAIN c.all_confidences |-> Round3(c.all_confidences[k])],
                   yolo_detection_confidence |-> Round3(detection.confidence)] >>

\* detections[:max_detections]
Truncate(detections, n) == SubSeq(detections, 1, Min(n, Len(detections)))

\* "break" where the code says "continue"
RECURSIVE ProcessLoop_break(_, _, _)
ProcessLoop_break(image, detections, cap) ==
  IF detections = <<>> THEN <<>>
  ELSE LET r == ProcessDetection(image, Head(detections), cap)
       IN  IF r = <<>> THEN <<>>
           ELSE r \o ProcessLoop_break(image, Tail(detections), cap)

RECURSIVE ProcessLoop(_, _, _)
ProcessLoop(image, detections, cap) ==
  IF detections = <<>> THEN <<>>
  ELSE ProcessDetection(image, Head(detections), cap)
         \o ProcessLoop(image, Tail(detections), cap)

\* YOLODetector.detect: an exception inside is answered with []
Detect(image, yolo) == IF yolo.raises THEN <<>> ELSE yolo.boxes

\* an argument of process_image that is no array: reading .shape raises
NotAnArray == [width |-> -1, height |-> -1]
IsArray(image) == image # NotAnArray

\* the cap applied to the results instead of to the detector's list
ProcessImage_capResults(image, yolo, maxdet, cap) ==
  IF ~IsArray(image)
  THEN [detections |-> <<>>, error |-> "object has no attribute 'shape'",
        message |-> NoKey, image_size |-> NoKey]
  ELSE IF ~ValidateImage(image, MinImageSide, MinImageSide)
  THEN [detections |-> <<>>, error |-> "Image too small (minimum 224x224 required)",
        message |-> NoKey, image_size |-> NoKey]
  ELSE LET detections == Detect(image, yolo)
       IN  IF detections = <<>>
           THEN [detections |-> <<>>, error |-> NoKey,
                 message |-> "No objects detected in image", image_size |-> NoKey]
           ELSE [detections |-> Truncate(ProcessLoop(image, detections, cap), maxdet),
                 error |-> NoKey, message |-> NoKey,
                 image_size |-> [width |-> image.width, height |-> image.height]]

\* an empty detector answer reported as an error
ProcessImage_emptyIsError(image, yolo, maxdet, cap) ==
  IF ~IsArray(image)
  THEN [detections |-> <<>>, error |-> "object has no attribute 'shape'",
        message |-> NoKey, image_size |-> NoKey]
  ELSE IF ~ValidateImage(image, MinImageSide, MinImageSide)
  THEN [detections |-> <<>>, error |-> "Image too small (minimum 224x224 required)",
        message |-> NoKey, image_size |-> NoKey]
  ELSE LET detections == Detect(image, yolo)
       IN  IF detections = <<>>
           THEN [detections |-> <<>>, error |-> "No objects detected in image",
                 message |-> NoKey, image_size |-> NoKey]
           ELSE [detections |-> ProcessLoop(image, Truncate(detections, maxdet), cap),
                 error |-> NoKey, message |-> NoKey,
                 image_size |-> [width |-> image.width, height |-> image.height]]

\* a failed call answered like an empty one, with a message and no 'error'
ProcessImage_failureIsMessage(image, yolo, maxdet, cap) ==
  IF ~IsArray(image)
  THEN [detections |-> <<>>, error |-> NoKey,
        message |-> "object has no attribute 'shape'", image_size |-> NoKey]
  ELSE IF ~ValidateImage(image, MinImageSide, MinImageSide)
  THEN [detections |-> <<>>, error |-> NoKey,
        message |-> "Image too small (minimum 224x224 required)", image_size |-> NoKey]
  ELSE LET detections == Detect(image, yolo)
       IN  IF detections = <<>>
           THEN [detections |-> <<>>, error |-> NoKey,
                 message |-> "No objects detected in image", image_size |-> NoKey]
           ELSE [detections |-> ProcessLoop(image, Truncate(detections, maxdet), cap),
                 error |-> NoKey, message |-> NoKey,
                 image_size |-> [width |-> image.width, height |-> image.height]]

\* InferenceService.process_image
ProcessImage(image, yolo, maxdet, cap) ==
  IF ~IsArray(image)
  THEN [detections |-> <<>>, error |-> "object has no attribute 'shape'",
        message |-> NoKey, image_size |-> NoKey]
  ELSE IF ~ValidateImage(image, MinImageSide, MinImageSide)
  THEN [detections |-> <<>>, error |-> "Image too small (minimum 224x224 required)",
        message |-> NoKey, image_size |-> NoKey]
  ELSE LET detections == Detect(image, yolo)
       IN  IF detections = <<>>
           THEN [detections |-> <<>>, error |-> NoKey,
                 message |-> "No objects detected in image", image_size |-> NoKey]
           ELSE [detections |-> ProcessLoop(image, Truncate(detections, maxdet), cap),
                 error |-> NoKey, message |-> NoKey,
                 image_size |-> [width |-> image.width, height |-> image.height]]

\* the calls process_image makes for one detection, in the order it makes them
DetectionCalls(image, detection) ==
  LET bbox == PixelBox(detection.box, image.width, image.height)
  IN  IF TooSmall(bbox) THEN <<>>
      ELSE <<"crop_image">> \o
           IF CropSize(image, bbox, CropPadding) = 0 THEN <<>>
           ELSE <<"preprocess_for_classification">> \o
                IF PreprocessRaises(detection.crop) THEN <<>>
                ELSE <<"extract", "classify">>

RECURSIVE LoopCalls(_, _, _)
LoopCalls(image, detections, i) ==
  IF detections = <<>> THEN <<>>
  ELSE LET own == DetectionCalls(image, Head(detections))
       IN  [k \in 1..Len(own) |-> [detection |-> i, call |-> own[k]]]
             \o LoopCalls(image, Tail(detections), i + 1)

\* the calls of one process_image, detector first
ImageCalls(image, yolo, maxdet) ==
  IF ~IsArray(image) \/ ~ValidateImage(image, MinImageSide, MinImageSide) THEN <<>>
  ELSE <<[detection |-> 0, call |-> "detect"]>>
         \o LoopCalls(image, Truncate(Detect(image, yolo), maxdet), 1)

\* ------------------------------------------------------------ request inputs
\* detector output: boxes <<ymin, xmin, ymax, xmax>> * BoxDen, the detector's
\* confidence, and what the image shows there
BoxFull == <<0, 0, 8, 8>>
BoxMid == <<2, 2, 6, 6>>
BoxSmall == <<0, 0, 1, 1>>
BoxOutside == <<0, 9, 4, 10>>
DetectionInputs ==
  { [box |-> BoxFull, confidence |-> 10805, crop |-> k] :
      k \in {"A", "badresize", "badextract", "badclassify"} }
  \cup { [box |-> BoxMid, confidence |-> 6000, crop |-> k] : k \in {"A", "B"} }
  \cup { [box |-> BoxSmall, confidence |-> 8400, crop |-> "A"],
         [box |-> BoxOutside, confidence |-> 7200, crop |-> "B"] }

RECURSIVE SeqsUpTo(_, _)
SeqsUpTo(S, n) ==
  IF n = 0 THEN {<<>>}
  ELSE LET shorter == SeqsUpTo(S, n - 1)
       IN  shorter \cup {Append(s, x) : s \in {t \in shorter : Len(t) = n - 1}, x \in S}

YoloOutcomes ==
  {[raises |-> TRUE, boxes |-> <<>>]}
  \cup {[raises |-> FALSE, boxes |-> b] : b \in SeqsUpTo(DetectionInputs, MaxDets)}

Images == {[width |-> 200, height |-> 300], [width |-> 400, height |-> 300]}
UploadKinds == {"ok", "bad_type", "too_large", "undecodable"}
ClassifierCaps == {"predict_proba", "decision_function", "neither"}

VARIABLES max_detections, clfCap, started, inference_service, request, result, response
\* the calls the pipeline made for the request in hand
VARIABLES calls
appVars == <<max_detections, clfCap, started, inference_service, request, result, response, calls>>

\* Part II: the SVMClassifier object, the call in progress and its outcome
VARIABLES models, modelCaps, labelKind, svmRequest, svmResult
svmVars == <<models, modelCaps, labelKind, svmRequest, svmResult>>

\* one call of the box geometry: its arguments and what it computed
VARIABLES geoIn, geoOut
\* a lazily constructed module global, its constructions, and its callers
VARIABLES getter, instance, constructed, thread
\* the first call answered and its answer
VARIABLES memo
\* a batch of images given to extract_features_batch and the list it returned
VARIABLES batchIn, batchOut
\* a request to the /api router of src/, its response, and the calls made for it
VARIABLES apiRequest, apiResponse, apiCalls
ioVars == <<batchIn, batchOut, apiRequest, apiResponse, apiCalls>>
auxVars == <<geoIn, geoOut, getter, instance, constructed, thread, memo, ioVars>>

vars == <<appVars, svmVars, auxVars>>

NoBox == [box |-> <<>>]
NotMeasured == [measured |-> FALSE]
NoInstance == [id |-> 0, model_dir |-> None]
NoConstructions == [lazy |-> 0, total |-> 0]
NoMemo == [has |-> FALSE]
NoBatch == [images |-> <<>>]
NoBatchResult == [returned |-> FALSE]
NoApiRequest == [endpoint |-> None]
NoApiResponse == [status |-> 0]

IoIdle ==
  /\ batchIn = NoBatch
  /\ batchOut = NoBatchResult
  /\ apiRequest = NoApiRequest
  /\ apiResponse = NoApiResponse
  /\ apiCalls = <<>>

\* the parts that take no step in a specification
AuxIdle ==
  /\ geoIn = NoBox
  /\ geoOut = NotMeasured
  /\ getter = None
  /\ instance = NoInstance
  /\ constructed = NoConstructions
  /\ thread = <<>>
  /\ memo = NoMemo
  /\ IoIdle

\* Part I leaves the SVMClassifier of Part II alone
SvmIdle ==
  /\ models = <<>>
  /\ modelCaps = <<>>
  /\ labelKind = None
  /\ svmRequest = [call |-> None]
  /\ svmResult = [ok |-> FALSE, error |-> None]

NoRequest == [endpoint |-> None]
NoResponse == [status |-> 0]

\* Part II and the later parts leave the pipeline of Part I alone
AppIdle ==
  /\ max_detections = 1
  /\ clfCap = "predict_proba"
  /\ started = FALSE
  /\ inference_service = None
  /\ request = NoRequest
  /\ result = None
  /\ response = NoResponse
  /\ calls = <<>>

Init ==
  /\ max_detections \in 1..MaxCap
  /\ clfCap \in ClassifierCaps
  /\ started = FALSE
  /\ inference_service = None
  /\ request = NoRequest
  /\ result = None
  /\ response = NoResponse
  /\ calls = <<>>
  /\ SvmIdle
  /\ AuxIdle

\* app.main.startup_event: stores the service, or returns / swallows the error
Startup ==
  /\ ~started
  /\ started' = TRUE
  /\ \E loaded \in BOOLEAN :
       inference_service' = IF loaded THEN "InferenceService" ELSE None
  /\ UNCHANGED <<max_detections, clfCap, request, result, response, calls, svmVars, auxVars>>

\* a client posts an upload to /api/classify-frame
PostFrame ==
  /\ started
  /\ request = NoRequest
  /\ \/ \E kind \in UploadKinds \ {"ok"} :
          request' = [endpoint |-> "classify_frame", upload |-> kind,
                      image |-> [width |-> 0, height |-> 0],
                      yolo |-> [raises |-> FALSE, boxes |-> <<>>]]
     \/ \E image \in Images, yolo \in YoloOutcomes :
          request' = [endpoint |-> "classify_frame", upload |-> "ok",
                      image |-> image, yolo |-> yolo]
  /\ UNCHANGED <<max_detections, clfCap, started, inference_service, result, response, calls, svmVars, auxVars>>

\* app.main.classify_frame
ClassifyFrameResponse(req, service, maxdet, cap) ==
  IF service = None THEN [status |-> 503, success |-> FALSE, pipeline |-> None]
  ELSE IF req.upload # "ok" THEN [status |-> 400, success |-> FALSE, pipeline |-> None]
  ELSE IF ~ValidateImage(req.image, MinImageSide, MinImageSide)
  THEN [status |-> 400, success |-> FALSE, pipeline |-> None]
  ELSE LET r == ProcessImage(req.image, req.yolo, maxdet, cap)
       IN  IF r.error # NoKey
           THEN [status |-> 500, success |-> FALSE, pipeline |-> r]
           ELSE [status |-> 200, success |-> TRUE, pipeline |-> r,
                 detections |-> r.detections,
                 num_detections |-> Len(r.detections)]

\* the cap counted over the life of the service instead of per call
ClassifyFrame_consumes ==
  /\ request.endpoint = "classify_frame"
  /\ response = NoResponse
  /\ response' = ClassifyFrameResponse(request, inference_service, max_detections, clfCap)
  /\ result' = response'.pipeline
  /\ calls' = IF response'.status \notin {200, 500} THEN <<>>
              ELSE ImageCalls(request.image, request.yolo, max_detections)
  /\ max_detections' = IF response'.status = 200
                        THEN Max(0, max_detections - response'.num_detections)
                        ELSE max_detections
  /\ UNCHANGED <<clfCap, started, inference_service, request, svmVars, auxVars>>

ClassifyFrame ==
  /\ request.endpoint = "classify_frame"
  /\ response = NoResponse
  /\ response' = ClassifyFrameResponse(request, inference_service, max_detections, clfCap)
  /\ result' = response'.pipeline
  /\ calls' = IF response'.status \notin {200, 500} THEN <<>>
              ELSE ImageCalls(request.image, request.yolo, max_detections)
  /\ UNCHANGED <<max_detections, clfCap, started, inference_service, request, svmVars, auxVars>>

\* the response is sent; the handler holds nothing of the request afterwards
Reply ==
  /\ response # NoResponse
  /\ request' = NoRequest
  /\ result' = None
  /\ response' = NoResponse
  /\ calls' = <<>>
  /\ UNCHANGED <<max_detections, clfCap, started, inference_service, svmVars, auxVars>>

\* a caller inside the process calls inference_service.process_image(image)
\* itself, with any image and with something that is no array
CallProcessImage ==
  /\ started
  /\ inference_service # None
  /\ request = NoRequest
  /\ \E image \in Images \cup {NotAnArray}, yolo \in YoloOutcomes :
       request' = [endpoint |-> "process_image", upload |-> "ok",
                   image |-> image, yolo |-> yolo]
  /\ UNCHANGED <<max_detections, clfCap, started, inference_service, result, response,
                 calls, svmVars, auxVars>>

\* InferenceService.process_image, called directly
ProcessImageCall ==
  /\ request.endpoint = "process_image"
  /\ result' = ProcessImage(request.image, request.yolo, max_detections, clfCap)
  /\ calls' = ImageCalls(request.image, request.yolo, max_detections)
  /\ request' = [request EXCEPT !.endpoint = "process_image returned"]
  /\ UNCHANGED <<max_detections, clfCap, started, inference_service, response,
                 svmVars, auxVars>>

\* the caller takes the dictionary
ReturnProcessImage ==
  /\ request.endpoint = "process_image returned"
  /\ request' = NoRequest
  /\ result' = None
  /\ calls' = <<>>
  /\ UNCHANGED <<max_detections, clfCap, started, inference_service, response,
                 svmVars, auxVars>>

\* a client asks GET /health
GetHealth ==
  /\ started
  /\ request = NoRequest
  /\ request' = [endpoint |-> "health"]
  /\ UNCHANGED <<max_detections, clfCap, started, inference_service, result, response,
                 calls, svmVars, auxVars>>

\* what /health says of the models when no service is stored
HealthStatus_loaded(service) == "loaded"

\* app.main.health_check: models_status
HealthStatus(service) == IF service # None THEN "loaded" ELSE "not_loaded"

\* app.main.health_check
HealthCheck ==
  /\ request.endpoint = "health"
  /\ response = NoResponse
  /\ response' = [status |-> 200, ml_models |-> HealthStatus(inference_service)]
  /\ UNCHANGED <<max_detections, clfCap, started, inference_service, request, result,
                 calls, svmVars, auxVars>>

Next ==
  \/ Startup
  \/ PostFrame
  \/ ClassifyFrame
  \/ Reply
  \/ CallProcessImage
  \/ ProcessImageCall
  \/ ReturnProcessImage
  \/ GetHealth
  \/ HealthCheck

Spec == Init /\ [][Next]_vars

\* ---------------------------------------------------------------- Part II
\* SVMClassifier (src/models/classifier.py)
SvmCategories == <<"Organik", "Anorganik", "Lainnya">>

\* _load_models: model_files, in the order the dict is walked
ModelFiles == <<"mobilenetv3_poly", "mobilenetv3_rbf", "resnet50_poly", "resnet50_rbf">>
ModelNames == {ModelFiles[i] : i \in DOMAIN ModelFiles}
Backbones == {"mobilenetv3", "resnet50"}

\* model_info[name]['cnn_backbone'] = name.split('_')[0]
CnnBackbone(name) ==
  IF name \in {"mobilenetv3_poly", "mobilenetv3_rbf"} THEN "mobilenetv3" ELSE "resnet50"

\* _predict_best_model: model_priority
ModelPriority == <<"resnet50_rbf", "resnet50_poly", "mobilenetv3_rbf", "mobilenetv3_poly">>

InSeq(x, seq) == \E i \in DOMAIN seq : seq[i] = x

\* the non-empty sets of model files found on disk, as self.models key order
RECURSIVE SubSeqsOf(_)
SubSeqsOf(seq) ==
  IF seq = <<>> THEN {<<>>}
  ELSE LET rest == SubSeqsOf(Tail(seq))
       IN  rest \cup {<<Head(seq)>> \o r : r \in rest}
LoadedModelSeqs == SubSeqsOf(ModelFiles) \ {<<>>}

\* Fitted-model stand-ins: what model `name` answers for the features of an
\* image.  Images: "tie" (every model torn between the first two classes),
\* "mix" (the models disagree), "rbf_fails" (the rbf models raise),
\* "all_fail" (every model raises), "disagree" (predict answers the second
\* class while the probabilities and the decision scores favour the first,
\* as an SVC's predict and its Platt-scaled predict_proba can).
Samples == {"tie", "mix", "rbf_fails", "all_fail", "disagree"}
ModelRaises(name, sample) ==
  \/ sample = "all_fail"
  \/ sample = "rbf_fails" /\ name \in {"mobilenetv3_rbf", "resnet50_rbf"}
\* model.predict(...)[0] as a class index
ModelPredict(name, sample) ==
  IF sample = "tie" THEN 0
  ELSE IF sample = "disagree" THEN 1
  ELSE CASE name = "mobilenetv3_poly" -> 0
         [] name = "mobilenetv3_rbf" -> 1
         [] name = "resnet50_poly" -> 2
         [] OTHER -> 2
ModelProba(name, sample) ==
  IF sample = "tie" THEN <<6000, 6000, 0>>
  ELSE IF sample = "disagree" THEN <<6000, 4800, 1200>>
  ELSE CASE name = "mobilenetv3_poly" -> <<7200, 3600, 1200>>
         [] name = "mobilenetv3_rbf" -> <<2400, 8400, 1200>>
         [] name = "resnet50_poly" -> <<1200, 2400, 8400>>
         [] OTHER -> <<3600, 3600, 4800>>
ModelDecision(name, sample) ==
  IF sample = "tie" THEN <<1, 1, -3>>
  ELSE IF sample = "disagree" THEN <<2, 1, 0>>
  ELSE CASE name = "mobilenetv3_poly" -> <<2, 1, 0>>
         [] name = "mobilenetv3_rbf" -> <<0, 3, 0>>
         [] name = "resnet50_poly" -> <<-1, 0, 2>>
         [] OTHER -> <<0, 0, 0>>

\* the label model.predict returns: a category name, or the class index when
\* the model was fitted on integer labels
LabelKinds == {"name", "index"}
IndexLabels == <<"0", "1", "2">>
Label(p, kind) == IF kind = "name" THEN SvmCategories[p + 1] ELSE IndexLabels[p + 1]

\* a Python dict as its keys and its values, in insertion order
Dict(keys, vals) == [keys |-> keys, vals |-> vals]
\* d[key] = v
DictSet(d, key, v) ==
  IF InSeq(key, d.keys)
  THEN Dict(d.keys, [i \in DOMAIN d.vals |-> IF d.keys[i] = key THEN v ELSE d.vals[i]])
  ELSE Dict(Append(d.keys, key), Append(d.vals, v))

RECURSIVE SeqMax(_)
SeqMax(v) == IF Len(v) = 1 THEN v[1] ELSE Max(v[1], SeqMax(Tail(v)))

\* np.argmax: the first index (from 0) of the maximum
ArgMax_last(v) ==
  (CHOOSE i \in DOMAIN v : v[i] = SeqMax(v) /\ \A j \in DOMAIN v : v[j] = SeqMax(v) => j <= i) - 1
ArgMax(v) ==
  (CHOOSE i \in DOMAIN v : v[i] = SeqMax(v) /\ \A j \in DOMAIN v : v[j] = SeqMax(v) => j >= i) - 1

\* exp_scores / np.sum(exp_scores) of _predict_single_model
PseudoProbabilities(decision_scores) == Softmax(decision_scores)

DefaultConfidence == 500 * Milli
Third == Scale \div 3

Raised(msg) == [ok |-> FALSE, error |-> msg]

\* _predict_single_model from "feature_vector = features[cnn_type]" on
SingleModelResult(name, caps, kind, sample) ==
  IF ModelRaises(name, sample) THEN Raised("model raised")
  ELSE LET prediction == Label(ModelPredict(name, sample), kind)
           probabilities ==
             IF caps[name] = "predict_proba" THEN ModelProba(name, sample)
             ELSE PseudoProbabilities(ModelDecision(name, sample))
       IN  IF caps[name] \in {"predict_proba", "decision_function"}
           THEN [ok |-> TRUE, prediction |-> prediction,
                 confidence |-> SeqMax(probabilities),
                 probabilities |-> Dict(SvmCategories, probabilities),
                 model_used |-> name]
           ELSE [ok |-> TRUE, prediction |-> prediction,
                 confidence |-> DefaultConfidence,
                 probabilities |->
                   DictSet(Dict(SvmCategories, <<Third, Third, Third>>), prediction, Scale),
                 model_used |-> name]

\* an unknown name answered by the first loaded model
PredictSingleModel_firstLoaded(loaded, caps, kind, keys, sample, model_name) ==
  LET name == IF InSeq(model_name, loaded) THEN model_name ELSE loaded[1]
  IN  IF CnnBackbone(name) \notin keys
      THEN Raised("Required features not available in input")
      ELSE SingleModelResult(name, caps, kind, sample)

\* SVMClassifier._predict_single_model
PredictSingleModel(loaded, caps, kind, keys, sample, model_name) ==
  IF ~InSeq(model_name, loaded) THEN Raised("Model not available")
  ELSE IF CnnBackbone(model_name) \notin keys
  THEN Raised("Required features not available in input")
  ELSE SingleModelResult(model_name, caps, kind, sample)

RECURSIVE WalkModels(_, _, _, _, _, _)
WalkModels(order, loaded, caps, kind, keys, sample) ==
  IF order = <<>> THEN Raised("No compatible models available for the provided features")
  ELSE IF ~InSeq(Head(order), loaded)
  THEN WalkModels(Tail(order), loaded, caps, kind, keys, sample)
  ELSE IF CnnBackbone(Head(order)) \in keys
  THEN PredictSingleModel(loaded, caps, kind, keys, sample, Head(order))
  ELSE WalkModels(Tail(order), loaded, caps, kind, keys, sample)

\* the models walked in load order instead of the priority order
PredictBestModel_loadOrder(loaded, caps, kind, keys, sample) ==
  WalkModels(ModelFiles, loaded, caps, kind, keys, sample)

\* SVMClassifier._predict_best_model
PredictBestModel(loaded, caps, kind, keys, sample) ==
  WalkModels(ModelPriority, loaded, caps, kind, keys, sample)

\* the loop of _predict_ensemble: the results of the members that answered
RECURSIVE IndividualResults(_, _, _, _, _, _)
IndividualResults(names, loaded, caps, kind, keys, sample) ==
  IF names = <<>> THEN <<>>
  ELSE LET rest == IndividualResults(Tail(names), loaded, caps, kind, keys, sample)
           r == PredictSingleModel(loaded, caps, kind, keys, sample, Head(names))
       IN  IF CnnBackbone(Head(names)) \notin keys THEN rest
           ELSE IF ~r.ok THEN rest
           ELSE <<r>> \o rest

RECURSIVE ColumnSum(_, _)
ColumnSum(rows, i) == IF rows = <<>> THEN 0 ELSE Head(rows)[i] + ColumnSum(Tail(rows), i)

\* np.mean(all_probabilities, axis=0), to the nearest 1 / Scale
MeanAxis0(rows) ==
  [i \in DOMAIN rows[1] |-> (2 * ColumnSum(rows, i) + Len(rows)) \div (2 * Len(rows))]

\* dict(zip(CATEGORIES, values)): the shorter of the two decides
Zip(keys, vals) ==
  LET n == Min(Len(keys), Len(vals)) IN Dict(SubSeq(keys, 1, n), SubSeq(vals, 1, n))

\* the part of _predict_ensemble after the loop, for a non-empty list
Aggregate(individual_results) ==
  LET all_probabilities ==
        [j \in DOMAIN individual_results |-> individual_results[j].probabilities.vals]
  IN  IF \E j \in DOMAIN all_probabilities :
            Len(all_probabilities[j]) # Len(all_probabilities[1])
      THEN Raised("inhomogeneous shape")
      ELSE LET avg_probabilities == MeanAxis0(all_probabilities)
               predicted_idx == ArgMax(avg_probabilities)
           IN  IF predicted_idx >= Len(SvmCategories)
               THEN Raised("list index out of range")
               ELSE [ok |-> TRUE,
                     prediction |-> SvmCategories[predicted_idx + 1],
                     confidence |-> avg_probabilities[predicted_idx + 1],
                     probabilities |-> Zip(SvmCategories, avg_probabilities),
                     model_used |-> "ensemble",
                     models_used |->
                       [j \in DOMAIN individual_results |-> individual_results[j].model_used],
                     num_models |-> Len(individual_results),
                     individual_results |-> individual_results]

\* an empty ensemble answered with a default result
PredictEnsemble_default(loaded, caps, kind, keys, sample) ==
  LET individual_results == IndividualResults(loaded, loaded, caps, kind, keys, sample)
  IN  IF individual_results = <<>>
      THEN [ok |-> TRUE, prediction |-> "Lainnya", confidence |-> 0,
            probabilities |-> Dict(SvmCategories, <<0, 0, 0>>),
            model_used |-> "ensemble", models_used |-> <<>>, num_models |-> 0,
            individual_results |-> <<>>]
      ELSE Aggregate(individual_results)

\* the members walked in the priority order of _predict_best_model
PredictEnsemble_priorityOrder(loaded, caps, kind, keys, sample) ==
  LET individual_results == IndividualResults(ModelPriority, loaded, caps, kind, keys, sample)
  IN  IF individual_results = <<>>
      THEN Raised("No models available for ensemble prediction")
      ELSE Aggregate(individual_results)

\* SVMClassifier._predict_ensemble
PredictEnsemble(loaded, caps, kind, keys, sample) ==
  LET individual_results == IndividualResults(loaded, loaded, caps, kind, keys, sample)
  IN  IF individual_results = <<>>
      THEN Raised("No models available for ensemble prediction")
      ELSE Aggregate(individual_results)

\* model_name tested before use_ensemble
Predict_nameFirst(loaded, caps, kind, req) ==
  LET r == IF req.model_name # None
           THEN PredictSingleModel(loaded, caps, kind, req.keys, req.sample, req.model_name)
           ELSE IF req.use_ensemble
           THEN PredictEnsemble(loaded, caps, kind, req.keys, req.sample)
           ELSE PredictBestModel(loaded, caps, kind, req.keys, req.sample)
  IN  IF r.ok THEN r
      ELSE [ok |-> FALSE, error |-> "SVM prediction failed", cause |-> r.error]

\* SVMClassifier.predict: every exception leaves as ValueError("SVM prediction failed: ...")
Predict(loaded, caps, kind, req) ==
  LET r == IF req.use_ensemble
           THEN PredictEnsemble(loaded, caps, kind, req.keys, req.sample)
           ELSE IF req.model_name # None
           THEN PredictSingleModel(loaded, caps, kind, req.keys, req.sample, req.model_name)
           ELSE PredictBestModel(loaded, caps, kind, req.keys, req.sample)
  IN  IF r.ok THEN r
      ELSE [ok |-> FALSE, error |-> "SVM prediction failed", cause |-> r.error]

SvmCapSets == {"predict_proba", "decision_function", "neither"}
RequestedNames == ModelNames \cup {None, "densenet_rbf"}

InitSVM ==
  /\ models \in LoadedModelSeqs
  /\ modelCaps \in [ModelNames -> SvmCapSets]
  /\ \A n \in ModelNames : ~InSeq(n, models) => modelCaps[n] = "predict_proba"
  /\ labelKind \in LabelKinds
  /\ svmRequest = [call |-> None]
  /\ svmResult = [ok |-> FALSE, error |-> None]
  /\ AppIdle
  /\ AuxIdle

\* a caller invokes classifier.predict(features, model_name, use_ensemble)
CallPredict ==
  /\ svmRequest.call = None
  /\ \E keys \in SUBSET Backbones, sample \in Samples,
        name \in RequestedNames, ens \in BOOLEAN :
       svmRequest' = [call |-> "predict", keys |-> keys, sample |-> sample,
                      model_name |-> name, use_ensemble |-> ens]
  /\ UNCHANGED <<models, modelCaps, labelKind, svmResult, appVars, auxVars>>

NoSvmResult == [ok |-> FALSE, error |-> None]
Returned == svmRequest.call = "returned"

PredictCall ==
  /\ svmRequest.call = "predict"
  /\ svmResult' = Predict(models, modelCaps, labelKind, svmRequest)
  /\ svmRequest' = [svmRequest EXCEPT !.call = "returned"]
  /\ UNCHANGED <<models, modelCaps, labelKind, appVars, auxVars>>

\* the caller takes the outcome; the classifier keeps nothing of the call
ReturnPredict ==
  /\ Returned
  /\ svmRequest' = [call |-> None]
  /\ svmResult' = NoSvmResult
  /\ UNCHANGED <<models, modelCaps, labelKind, appVars, auxVars>>

NextSVM == CallPredict \/ PredictCall \/ ReturnPredict

SpecSVM == InitSVM /\ [][NextSVM]_vars

\* ===================================================================
\* Part III: the box geometry of process_image and crop_image on its own
\* ===================================================================
\* every normalised box with 0 <= ymin <= ymax <= 1 and 0 <= xmin <= xmax <= 1
\* on the grid of BoxDen-ths
InRangeBoxes ==
  {<<ymin, xmin, ymax, xmax>> : ymin \in 0..BoxDen, xmin \in 0..BoxDen,
                                ymax \in 0..BoxDen, xmax \in 0..BoxDen}
    \cap {b \in Seq(0..BoxDen) : Len(b) = 4 /\ b[1] <= b[3] /\ b[2] <= b[4]}

\* image sizes, two of them not multiples of BoxDen, so that int() truncates
GeoImages == Images \cup {[width |-> 301, height |-> 227], [width |-> 45, height |-> 30]}

\* paddings: none, the pipeline's, and one wider than every image
Paddings == {0, CropPadding, 20 * CropPadding}

InitGeometry ==
  /\ geoIn \in [box : InRangeBoxes, image : GeoImages, padding : Paddings]
  /\ geoOut = NotMeasured
  /\ getter = None
  /\ instance = NoInstance
  /\ constructed = NoConstructions
  /\ thread = <<>>
  /\ memo = NoMemo
  /\ IoIdle
  /\ AppIdle
  /\ SvmIdle

\* inference.py:114-131: the pixel box, then crop_image on it
MeasureBox ==
  /\ geoOut = NotMeasured
  /\ LET bbox == PixelBox(geoIn.box, geoIn.image.width, geoIn.image.height)
     IN  geoOut' = [measured |-> TRUE, bbox |-> bbox,
                    region |-> CropRegion(geoIn.image, bbox, geoIn.padding)]
  /\ UNCHANGED <<geoIn, getter, instance, constructed, thread, memo, ioVars, appVars, svmVars>>

NextGeometry == MeasureBox

SpecGeometry == InitGeometry /\ [][NextGeometry]_vars

\* ===================================================================
\* Part IV: the lazily constructed module globals and their callers
\*   src/models/classifier.py get_classifier,
\*   src/models/feature_extractor.py get_feature_extractor,
\*   app/services/inference.py get_inference_service
\* ===================================================================
Getters == {"get_classifier", "get_feature_extractor", "get_inference_service"}

MaxThreads == 2
MaxInstances == 3
Threads == 1..MaxThreads

IdleThread ==
  [pc |-> "idle", model_dir |-> None, classifier_path |-> None,
   force_reload |-> FALSE, lazy |-> FALSE, new |-> 0, got |-> 0, raised |-> FALSE]

InitGetters ==
  /\ getter \in Getters
  /\ instance = NoInstance
  /\ constructed = NoConstructions
  /\ thread = [t \in Threads |-> IdleThread]
  /\ geoIn = NoBox
  /\ geoOut = NotMeasured
  /\ memo = NoMemo
  /\ IoIdle
  /\ AppIdle
  /\ SvmIdle

Busy == {u \in Threads : thread[u].pc \in {"check", "construct"}}

\* a caller enters the getter with its arguments
GetterCall(t) ==
  /\ thread[t].pc = "idle"
  /\ constructed.total + Cardinality(Busy) < MaxInstances
  /\ \E dir \in (IF getter = "get_classifier" THEN {None, "models_b"} ELSE {None}),
        path \in (IF getter = "get_inference_service" THEN {None, "svm.pkl"} ELSE {None}),
        reload \in (IF getter = "get_inference_service" THEN BOOLEAN ELSE {FALSE}) :
       thread' = [thread EXCEPT ![t] =
                    [IdleThread EXCEPT !.pc = "check", !.model_dir = dir,
                                       !.classifier_path = path, !.force_reload = reload]]
  /\ UNCHANGED <<getter, instance, constructed, geoIn, geoOut, memo, ioVars, appVars, svmVars>>

\* the condition of the getter's "if"
NeedsConstruction(g, inst, th) ==
  CASE g = "get_classifier" ->
         inst.id = 0 \/ (th.model_dir # None /\ inst.model_dir # th.model_dir)
    [] g = "get_feature_extractor" -> inst.id = 0
    [] g = "get_inference_service" -> inst.id = 0 \/ th.force_reload

\* the caller reads the global and decides
GetterCheck(t) ==
  /\ thread[t].pc = "check"
  /\ thread' = [thread EXCEPT ![t] =
       IF ~NeedsConstruction(getter, instance, thread[t])
       THEN [@ EXCEPT !.pc = "return"]
       ELSE IF getter = "get_inference_service" /\ @.classifier_path = None
       THEN [@ EXCEPT !.pc = "idle", !.raised = TRUE]
       ELSE [@ EXCEPT !.pc = "construct", !.lazy = (instance.id = 0)]]
  /\ UNCHANGED <<getter, instance, constructed, geoIn, geoOut, memo, ioVars, appVars, svmVars>>

\* the constructor runs: it loads the models, or raises
GetterConstruct(t) ==
  /\ thread[t].pc = "construct"
  /\ \E loaded \in BOOLEAN :
       IF loaded
       THEN /\ constructed' =
                 [lazy |-> constructed.lazy + (IF thread[t].lazy THEN 1 ELSE 0),
                  total |-> constructed.total + 1]
            /\ thread' = [thread EXCEPT ![t] =
                 [@ EXCEPT !.pc = "assign", !.new = constructed.total + 1]]
       ELSE /\ thread' = [thread EXCEPT ![t] = [@ EXCEPT !.pc = "idle", !.raised = TRUE]]
            /\ UNCHANGED constructed
  /\ UNCHANGED <<getter, instance, geoIn, geoOut, memo, ioVars, appVars, svmVars>>

\* the new instance is stored in the global
GetterAssign(t) ==
  /\ thread[t].pc = "assign"
  /\ instance' = [id |-> thread[t].new,
                  model_dir |-> IF thread[t].model_dir = None THEN "default"
                                ELSE thread[t].model_dir]
  /\ thread' = [thread EXCEPT ![t] = [@ EXCEPT !.pc = "return"]]
  /\ UNCHANGED <<getter, constructed, geoIn, geoOut, memo, ioVars, appVars, svmVars>>

\* "return _global": the caller receives what the global holds now
GetterReturn(t) ==
  /\ thread[t].pc = "return"
  /\ thread' = [thread EXCEPT ![t] = [@ EXCEPT !.pc = "idle", !.got = instance.id]]
  /\ UNCHANGED <<getter, instance, constructed, geoIn, geoOut, memo, ioVars, appVars, svmVars>>

NextGetters ==
  \E t \in Threads :
    \/ GetterCall(t)
    \/ GetterCheck(t)
    \/ GetterConstruct(t)
    \/ GetterAssign(t)
    \/ GetterReturn(t)

SpecGetters == InitGetters /\ [][NextGetters]_vars

\* ===================================================================
\* Part V: the same call made twice of one service
\* ===================================================================
\* the first frame is any frame; every later one is the first again
PostProbe ==
  IF memo.has
  THEN /\ labelKind = None
       /\ started
       /\ request = NoRequest
       /\ request' = memo.request
       /\ UNCHANGED <<max_detections, clfCap, started, inference_service, result,
                      response, calls, svmVars, auxVars>>
  ELSE labelKind = None /\ PostFrame

\* the response is sent, and the first one is kept for comparison
ReplyRemember ==
  /\ response # NoResponse
  /\ memo' = IF memo.has THEN memo
             ELSE [has |-> TRUE, request |-> request, response |-> response]
  /\ request' = NoRequest
  /\ result' = None
  /\ response' = NoResponse
  /\ calls' = <<>>
  /\ UNCHANGED <<max_detections, clfCap, started, inference_service, svmVars,
                 geoIn, geoOut, getter, instance, constructed, thread, ioVars>>

\* the first predict is any call; every later one is the first again
CallProbe ==
  IF memo.has
  THEN /\ labelKind # None
       /\ svmRequest.call = None
       /\ svmRequest' = [memo.request EXCEPT !.call = "predict"]
       /\ UNCHANGED <<models, modelCaps, labelKind, svmResult, appVars, auxVars>>
  ELSE labelKind # None /\ CallPredict

\* the caller takes the outcome, and the first one is kept for comparison
ReturnRemember ==
  /\ Returned
  /\ memo' = IF memo.has THEN memo
             ELSE [has |-> TRUE, request |-> svmRequest, response |-> svmResult]
  /\ svmRequest' = [call |-> None]
  /\ svmResult' = NoSvmResult
  /\ UNCHANGED <<models, modelCaps, labelKind, appVars,
                 geoIn, geoOut, getter, instance, constructed, thread, ioVars>>

InitRepeat == Init \/ InitSVM

\* startup_event of the service whose frames are repeated
StartService == labelKind = None /\ Startup

NextRepeat ==
  \/ StartService
  \/ PostProbe
  \/ ClassifyFrame
  \/ ReplyRemember
  \/ CallProbe
  \/ PredictCall
  \/ ReturnRemember

SpecRepeat == InitRepeat /\ [][NextRepeat]_vars

\* ===================================================================
\* Part VI: src/models/feature_extractor.py, CNNFeatureExtractor and
\* extract_features_batch
\* ===================================================================
\* preprocessed images: two good ones, one of the wrong shape, and one on
\* which the forward pass of a backbone raises
BatchImages == {"imgA", "imgB", "bad_shape", "bad_forward"}
\* the model_name argument; "densenet" is none of the three the code knows
ExtractorArgs == {"both", "resnet50", "mobilenetv3", "densenet"}

\* the backbones extract_features runs for model_name, in the order it runs them
BackbonesFor(model_name) ==
  (IF model_name \in {"both", "resnet50"} THEN <<"resnet50">> ELSE <<>>)
    \o (IF model_name \in {"both", "mobilenetv3"} THEN <<"mobilenetv3">> ELSE <<>>)

\* CNNFeatureExtractor.extract_features: the dict of feature vectors, each
\* named by its image and backbone, or ValueError
ExtractFeatures(image, model_name) ==
  IF image = "bad_shape" THEN Raised("Feature extraction failed")
  ELSE IF image = "bad_forward" /\ BackbonesFor(model_name) # <<>>
  THEN Raised("Feature extraction failed")
  ELSE IF model_name \notin {"both", "resnet50", "mobilenetv3"}
  THEN Raised("Feature extraction failed")
  ELSE [ok |-> TRUE,
        features |-> Dict(BackbonesFor(model_name),
                          [i \in DOMAIN BackbonesFor(model_name) |->
                             <<image, BackbonesFor(model_name)[i]>>])]

EmptyDict == Dict(<<>>, <<>>)

\* the batch given up at the first image that fails
RECURSIVE BatchLoop_abort(_, _)
BatchLoop_abort(images, model_name) ==
  IF images = <<>> THEN <<>>
  ELSE LET r == ExtractFeatures(Head(images), model_name)
       IN  IF r.ok THEN <<r.features>> \o BatchLoop_abort(Tail(images), model_name)
           ELSE <<>>

\* the loop of extract_features_batch
RECURSIVE BatchLoop(_, _)
BatchLoop(images, model_name) ==
  IF images = <<>> THEN <<>>
  ELSE LET r == ExtractFeatures(Head(images), model_name)
       IN  <<IF r.ok THEN r.features ELSE EmptyDict>>
             \o BatchLoop(Tail(images), model_name)

\* extract_features_batch: get_feature_extractor() is outside the loop
ExtractFeaturesBatch(images, model_name, extractor_loads) ==
  IF ~extractor_loads THEN [returned |-> TRUE, raised |-> TRUE, results |-> <<>>]
  ELSE [returned |-> TRUE, raised |-> FALSE, results |-> BatchLoop(images, model_name)]

MaxBatch == 3

InitBatch ==
  /\ batchIn \in [images : SeqsUpTo(BatchImages, MaxBatch), model_name : ExtractorArgs,
                  extractor_loads : BOOLEAN]
  /\ batchOut = NoBatchResult
  /\ apiRequest = NoApiRequest
  /\ apiResponse = NoApiResponse
  /\ apiCalls = <<>>
  /\ geoIn = NoBox
  /\ geoOut = NotMeasured
  /\ getter = None
  /\ instance = NoInstance
  /\ constructed = NoConstructions
  /\ thread = <<>>
  /\ memo = NoMemo
  /\ AppIdle
  /\ SvmIdle

ExtractBatch ==
  /\ batchOut = NoBatchResult
  /\ batchOut' = ExtractFeaturesBatch(batchIn.images, batchIn.model_name,
                                      batchIn.extractor_loads)
  /\ UNCHANGED <<batchIn, apiRequest, apiResponse, apiCalls, geoIn, geoOut, getter,
                 instance, constructed, thread, memo, appVars, svmVars>>

NextBatch == ExtractBatch

SpecBatch == InitBatch /\ [][NextBatch]_vars

\* ===================================================================
\* Part VII: src/api/classification.py, POST /api/classify and
\* POST /api/benchmark, over the SVMClassifier of Part II
\* ===================================================================
\* uploads: a good one, one without a filename, one of a type that is not
\* allowed, one that validate_image_bytes rejects, one that preprocess_image
\* raises on, and one on which the backbone's forward pass raises
ApiUploads ==
  {[filename |-> TRUE, type_ok |-> TRUE, content |-> "imgA"],
   [filename |-> FALSE, type_ok |-> TRUE, content |-> "imgA"],
   [filename |-> TRUE, type_ok |-> FALSE, content |-> "imgA"],
   [filename |-> TRUE, type_ok |-> TRUE, content |-> "invalid"],
   [filename |-> TRUE, type_ok |-> TRUE, content |-> "unpreprocessable"],
   [filename |-> TRUE, type_ok |-> TRUE, content |-> "bad_forward"]}

MaxRuns == 20
BenchmarkRuns == {0, 5, MaxRuns + 1}

\* model_info[name]['svm_kernel'] = name.split('_')[1]
SvmKernel(name) ==
  IF name \in {"mobilenetv3_poly", "resnet50_poly"} THEN "poly" ELSE "rbf"

\* HTTPException(status_code), after the calls made so far
Http(status, made) == [status |-> status, success |-> FALSE, calls |-> made]

SeqToSet(seq) == {seq[i] : i \in DOMAIN seq}

\* a name that is not loaded treated as no name at all
SelectFeatures_downgrade(model_name, loaded) ==
  IF model_name # None /\ InSeq(model_name, loaded)
  THEN [ok |-> TRUE, backbone |-> CnnBackbone(model_name)]
  ELSE [ok |-> TRUE, backbone |-> "both"]

\* classify_image, "Determine which features to extract based on model_name"
SelectFeatures(model_name, loaded) ==
  IF model_name # None
  THEN IF ~InSeq(model_name, loaded) THEN [ok |-> FALSE, backbone |-> None]
       ELSE [ok |-> TRUE, backbone |-> CnnBackbone(model_name)]
  ELSE [ok |-> TRUE, backbone |-> "both"]

\* JSONResponse(content=...): json.dumps has no encoding for the numpy
\* integers a model fitted on integer labels predicts
JsonRaises(kind) == kind = "index"

\* classification_result['model_info']
ModelInfoOf(r) ==
  IF r.model_used = "ensemble"
  THEN [type |-> "ensemble", models_used |-> r.models_used, num_models |-> r.num_models]
  ELSE [cnn_backbone |-> CnnBackbone(r.model_used), svm_kernel |-> SvmKernel(r.model_used)]

\* api.classification.classify_image: the response and the calls made for it
ClassifyImage(req, loaded, caps, kind) ==
  IF ~req.file.filename THEN Http(400, <<>>)
  ELSE IF ~req.file.type_ok THEN Http(400, <<>>)
  ELSE IF req.file.content = "invalid" THEN Http(400, <<"validate_image_bytes">>)
  ELSE IF req.file.content = "unpreprocessable"
  THEN Http(500, <<"validate_image_bytes", "preprocess_image">>)
  ELSE LET sel == SelectFeatures(req.model_name, loaded)
           before == <<"validate_image_bytes", "preprocess_image">>
       IN  IF ~sel.ok THEN Http(400, before)
           ELSE LET f == ExtractFeatures(req.file.content, sel.backbone)
                    extracted == Append(before, "extract_features")
                IN  IF ~f.ok THEN Http(500, extracted)
                    ELSE LET r == Predict(loaded, caps, kind,
                                          [keys |-> SeqToSet(f.features.keys),
                                           sample |-> req.sample,
                                           model_name |-> req.model_name,
                                           use_ensemble |-> req.use_ensemble])
                             predicted == Append(extracted, "predict")
                         IN  IF ~r.ok THEN Http(500, predicted)
                             ELSE IF JsonRaises(kind) THEN Http(500, predicted)
                             ELSE [status |-> 200, success |-> TRUE,
                                   prediction |-> r.prediction,
                                   confidence |-> r.confidence,
                                   probabilities |-> r.probabilities,
                                   model_info |-> ModelInfoOf(r),
                                   extracted |-> f.features.keys,
                                   calls |-> predicted]

\* SVMClassifier.benchmark_prediction raises: an average over no run, or a
\* model that raises
BenchmarkPredictionRaises(loaded, keys, sample, runs) ==
  \E i \in DOMAIN loaded :
    /\ CnnBackbone(loaded[i]) \in keys
    /\ runs <= 0 \/ ModelRaises(loaded[i], sample)

\* api.classification.benchmark_models
BenchmarkModels(req, loaded) ==
  IF req.runs > MaxRuns THEN Http(400, <<>>)
  ELSE IF req.file.content = "invalid" THEN Http(500, <<"validate_image_bytes">>)
  ELSE IF req.file.content = "unpreprocessable"
  THEN Http(500, <<"validate_image_bytes", "preprocess_image">>)
  ELSE LET f == ExtractFeatures(req.file.content, "both")
           extracted == <<"validate_image_bytes", "preprocess_image", "extract_features">>
       IN  IF ~f.ok THEN Http(500, extracted)
           ELSE IF BenchmarkPredictionRaises(loaded, SeqToSet(f.features.keys),
                                             req.sample, req.runs)
           THEN Http(500, Append(extracted, "benchmark_prediction"))
           ELSE IF req.runs <= 0
           THEN Http(500, extracted \o <<"benchmark_prediction", "benchmark_extraction">>)
           ELSE [status |-> 200, success |-> TRUE, benchmark_runs |-> req.runs,
                 calls |-> extracted \o <<"benchmark_prediction", "benchmark_extraction">>]

\* a client posts to /api/classify or to /api/benchmark
PostApi ==
  /\ apiRequest = NoApiRequest
  /\ \E file \in ApiUploads, sample \in Samples :
       \/ \E name \in RequestedNames, ens \in BOOLEAN :
            apiRequest' = [endpoint |-> "classify", file |-> file, sample |-> sample,
                           model_name |-> name, use_ensemble |-> ens]
       \/ \E runs \in BenchmarkRuns :
            apiRequest' = [endpoint |-> "benchmark", file |-> file, sample |-> sample,
                           runs |-> runs]
  /\ UNCHANGED <<apiResponse, apiCalls, batchIn, batchOut, geoIn, geoOut, getter,
                 instance, constructed, thread, memo, appVars, svmVars>>

ApiClassify ==
  /\ apiRequest.endpoint = "classify"
  /\ apiResponse = NoApiResponse
  /\ LET out == ClassifyImage(apiRequest, models, modelCaps, labelKind)
     IN  /\ apiResponse' = out
         /\ apiCalls' = out.calls
  /\ UNCHANGED <<apiRequest, batchIn, batchOut, geoIn, geoOut, getter,
                 instance, constructed, thread, memo, appVars, svmVars>>

ApiBenchmark ==
  /\ apiRequest.endpoint = "benchmark"
  /\ apiResponse = NoApiResponse
  /\ LET out == BenchmarkModels(apiRequest, models)
     IN  /\ apiResponse' = out
         /\ apiCalls' = out.calls
  /\ UNCHANGED <<apiRequest, batchIn, batchOut, geoIn, geoOut, getter,
                 instance, constructed, thread, memo, appVars, svmVars>>

\* the response is sent; the handlers keep nothing of the request
ApiReply ==
  /\ apiResponse # NoApiResponse
  /\ apiRequest' = NoApiRequest
  /\ apiResponse' = NoApiResponse
  /\ apiCalls' = <<>>
  /\ UNCHANGED <<batchIn, batchOut, geoIn, geoOut, getter,
                 instance, constructed, thread, memo, appVars, svmVars>>

InitApi == InitSVM

NextApi == PostApi \/ ApiClassify \/ ApiBenchmark \/ ApiReply

SpecApi == InitApi /\ [][NextApi]_vars

\* ----------------------------------------------------- claims, Part I
\* the state right after process_image returned to classify_frame
PipelineRan == request.endpoint = "classify_frame" /\ response.status \in {200, 500}
Dets == request.yolo.boxes
InCap == 1..Min(Len(Dets), max_detections)
DetBox(i) == PixelBox(Dets[i].box, request.image.width, request.image.height)
\* a detection the loop gives up: box too small, empty crop, exception in the loop
Abandoned(i) ==
  \/ TooSmall(DetBox(i))
  \/ CropSize(request.image, DetBox(i), CropPadding) = 0
  \/ PreprocessRaises(Dets[i].crop)
Kept == {i \in InCap : ~Abandoned(i)}
\* the index of the k-th detection that is kept
KeptAt(k) == CHOOSE i \in Kept : Cardinality({j \in Kept : j <= i}) = k
\* result r is the result of detection i: its box and the detector's confidence
ResultOf(r, i) ==
  /\ r.bbox = DetBox(i)
  /\ r.yolo_detection_confidence = Round3(Dets[i].confidence)

\* C1: the result list is the first max_detections detections without the
\* abandoned ones (box too small, degenerate crop, exception in the loop), in
\* their original order, and the request reports success.
C1_OrderPreservingSubsequence ==
  (PipelineRan /\ ~request.yolo.raises) =>
    /\ result.error = NoKey
    /\ response.status = 200 /\ response.success
    /\ Len(result.detections) = Cardinality(Kept)
    /\ \A k \in 1..Len(result.detections) : ResultOf(result.detections[k], KeptAt(k))

\* three detections, the second with a degenerate crop: two results, success
C1_Witness ==
  /\ PipelineRan
  /\ Len(Dets) = 3 /\ max_detections >= 3
  /\ ~TooSmall(DetBox(2))
  /\ CropSize(request.image, DetBox(2), CropPadding) = 0
  /\ Len(result.detections) = 2
  /\ response.status = 200

C3_ExtractionFailureAbandons ==
  PipelineRan =>
    /\ \A i \in Kept : ExtractorRaises(Dets[i].crop) => Extract(Dets[i].crop) # "zero"
    /\ Len(result.detections) =
         Cardinality({i \in Kept : ~ExtractorRaises(Dets[i].crop)})

\* C4: a detection whose classification raises yields no result (none with a
\* default category or zero confidence); the other detections are returned.
C4_ClassifierFailureDropped ==
  PipelineRan =>
    /\ Len(result.detections) =
         Cardinality({i \in Kept : ~SvmRaises(Extract(Dets[i].crop))})
    /\ \A k \in 1..Len(result.detections) : result.detections[k].confidence > 0

\* C5: a detector that throws fails the request: 'error' in the pipeline
\* result and a non-success response, never success with an empty list.
C5_DetectorFailureFailsRequest ==
  (PipelineRan /\ request.yolo.raises) =>
    /\ result.error # NoKey
    /\ response.status # 200
    /\ ~response.success

\* C6: at most max_detections results, each of them the result of one of the
\* first max_detections detections, also when earlier ones were abandoned.
C6_MaxDetections ==
  PipelineRan =>
    /\ Len(result.detections) <= max_detections
    /\ \A k \in 1..Len(result.detections) :
         \E i \in InCap : ResultOf(result.detections[k], i)

\* more detections than the cap, the first abandoned, the one right after the
\* cap fit to be kept and unlike every detection within the cap
C6_Witness ==
  /\ PipelineRan
  /\ response.status = 200
  /\ Len(Dets) > max_detections
  /\ Abandoned(1)
  /\ LET beyond == max_detections + 1
     IN  /\ ~TooSmall(DetBox(beyond))
         /\ CropSize(request.image, DetBox(beyond), CropPadding) > 0
         /\ ~PreprocessRaises(Dets[beyond].crop)
         /\ \A i \in InCap : Dets[i].box # Dets[beyond].box
  /\ Len(result.detections) < max_detections

\* ----------------------------------------------------- claims, Part II
\* the models of self.models whose backbone is among the features
Compatible == {n \in ModelNames : InSeq(n, models) /\ CnnBackbone(n) \in svmRequest.keys}
\* ... and that answer for the features of this request
Usable == {n \in Compatible : ~ModelRaises(n, svmRequest.sample)}
BestCall == Returned /\ ~svmRequest.use_ensemble /\ svmRequest.model_name = None
SingleCall == Returned /\ ~svmRequest.use_ensemble /\ svmRequest.model_name # None
EnsembleCall == Returned /\ svmRequest.use_ensemble

C7_Priority == <<"resnet50_rbf", "resnet50_poly", "mobilenetv3_rbf", "mobilenetv3_poly">>
C7_Candidates == {i \in DOMAIN C7_Priority : C7_Priority[i] \in Compatible}

\* C7: best-available selection uses the first identifier of the order
\* (resnet50_rbf, resnet50_poly, mobilenetv3_rbf, mobilenetv3_poly) that is
\* loaded and whose backbone is among the features; with none it fails with
\* an error and no result.
C7_BestAvailable ==
  BestCall =>
    IF C7_Candidates = {}
    THEN ~svmResult.ok
         /\ svmResult.cause = "No compatible models available for the provided features"
    ELSE LET first == C7_Priority[CHOOSE i \in C7_Candidates : \A j \in C7_Candidates : i <= j]
         IN  IF ModelRaises(first, svmRequest.sample)
             THEN ~svmResult.ok
             ELSE svmResult.ok /\ svmResult.model_used = first

\* all four models loaded, features of both backbones: resnet50_rbf answers
C7_Witness ==
  /\ BestCall
  /\ Len(models) = 4
  /\ svmRequest.keys = {"mobilenetv3", "resnet50"}
  /\ svmResult.ok
  /\ svmResult.model_used = "resnet50_rbf"

\* C8: selecting one model by identifier fails with an error, and yields no
\* prediction, when the identifier is not loaded or its backbone is not among
\* the features.
C8_SingleModelUnavailable ==
  (SingleCall /\ svmRequest.model_name \notin Compatible) =>
    /\ ~svmResult.ok
    /\ svmResult.error = "SVM prediction failed"
    /\ svmResult.cause =
         IF InSeq(svmRequest.model_name, models)
         THEN "Required features not available in input"
         ELSE "Model not available"

\* an identifier that is not loaded is asked for while another model, whose
\* features are at hand, could have answered
C8_Witness ==
  /\ SingleCall
  /\ ~InSeq(svmRequest.model_name, models)
  /\ Usable # {}
  /\ ~svmResult.ok

C9_Abs(x) == IF x < 0 THEN -x ELSE x

\* C9: the ensemble result is the element-wise mean of the contributing
\* probability vectors (to the nearest 1 / Scale), its category the argmax of
\* the mean with the lowest index winning a tie, its confidence the maximum.
C9_EnsembleMean ==
  (EnsembleCall /\ svmResult.ok) =>
    LET irs == svmResult.individual_results
        n == Len(irs)
        p == svmResult.probabilities.vals
        top == CHOOSE i \in 1..3 : /\ \A j \in 1..3 : p[j] <= p[i]
                                   /\ \A j \in 1..(i - 1) : p[j] < p[i]
    IN  /\ n >= 1
        /\ svmResult.probabilities.keys = <<"Organik", "Anorganik", "Lainnya">>
        /\ \A i \in 1..3 :
             2 * C9_Abs(n * p[i] - ColumnSum([j \in 1..n |-> irs[j].probabilities.vals], i)) <= n
        /\ svmResult.prediction = <<"Organik", "Anorganik", "Lainnya">>[top]
        /\ svmResult.confidence = p[top]

\* two members with [0.5, 0.5, 0.0] each: Organik with confidence 0.5
C9_Witness ==
  /\ EnsembleCall
  /\ svmResult.ok
  /\ svmResult.num_models = 2
  /\ \A j \in 1..2 : svmResult.individual_results[j].probabilities.vals
                        = <<500 * Milli, 500 * Milli, 0>>
  /\ svmResult.prediction = "Organik"
  /\ svmResult.confidence = 500 * Milli

\* C10: an ensemble without any usable member (all incompatible or failed)
\* fails with its own error, "No models available for ensemble prediction",
\* which no other outcome carries; no default category or zero confidence is
\* returned.
C10_EmptyEnsemble ==
  EnsembleCall =>
    /\ Usable = {} => ~svmResult.ok
    /\ Usable = {} <=>
         (~svmResult.ok /\ svmResult.cause = "No models available for ensemble prediction")

\* members are compatible with the features, and every one of them raises
C10_Witness ==
  /\ EnsembleCall
  /\ Compatible # {}
  /\ Usable = {}
  /\ ~svmResult.ok
  /\ svmResult.cause = "No models available for ensemble prediction"

SingleModeErrors ==
  {"Model not available", "Required features not available in input",
   "No compatible models available for the provided features", "model raised"}

\* C11: an ensemble that finds no usable classifier falls back to
\* single-model selection: the call is answered by that selection, or fails
\* with that selection's error, never with the ensemble's own.
C11_FallbackToSingle ==
  (EnsembleCall /\ Usable = {}) =>
    \/ svmResult.ok
    \/ svmResult.cause \in SingleModeErrors

\* C12: a model with neither predict_proba nor decision_function is answered
\* with a one-hot distribution at the predicted class and confidence 1.0.
C12_OneHotFallback ==
  (Returned /\ ~svmRequest.use_ensemble /\ svmResult.ok
     /\ modelCaps[svmResult.model_used] = "neither") =>
    /\ svmResult.confidence = Scale
    /\ \A i \in DOMAIN svmResult.probabilities.keys :
         svmResult.probabilities.vals[i] =
           IF svmResult.probabilities.keys[i] = svmResult.prediction THEN Scale ELSE 0

\* the result of process_image without its confidence values
C13_Untagged(r) ==
  [category |-> r.category, classification_source |-> r.classification_source,
   bbox |-> r.bbox, yolo_detection_confidence |-> r.yolo_detection_confidence]

\* C13: a result from the one-hot fallback differs, in a field other than its
\* confidence values, from the result a classifier with real probabilities
\* gives for the same detection.
C13_LowTrustTagged ==
  (PipelineRan /\ clfCap = "neither") =>
    \A k \in 1..Len(result.detections) :
      C13_Untagged(result.detections[k]) #
        C13_Untagged(ProcessDetection(request.image, Dets[KeptAt(k)], "predict_proba")[1])

\* C15: the category of every returned result is one of Organik, Anorganik,
\* Lainnya and its confidence lies in [0, 1].
C15_CategoryAndConfidence ==
  (Returned /\ svmResult.ok) =>
    /\ svmResult.prediction \in {"Organik", "Anorganik", "Lainnya"}
    /\ 0 <= svmResult.confidence /\ svmResult.confidence <= Scale

\* tolerance of a sum of three values rounded to three decimals
C16_Tolerance == 2 * Milli

\* C16: every returned result carries a confidence for exactly the three
\* categories, and the three sum to 1 within tolerance, whichever branch
\* produced it.
C16_ConfidencesSumToOne ==
  PipelineRan =>
    \A k \in 1..Len(result.detections) :
      LET a == result.detections[k].all_confidences
          sum == a.Organik + a.Anorganik + a.Lainnya
      IN  /\ DOMAIN a = {"Organik", "Anorganik", "Lainnya"}
          /\ Scale - C16_Tolerance <= sum /\ sum <= Scale + C16_Tolerance

\* C18: for an in-range normalised box, any image size and any padding >= 0,
\* the reported pixel box and the padded region that is cropped both lie
\* inside the image: 0 <= x, 0 <= y, x + width <= image width and
\* y + height <= image height.
C18_InsideImage ==
  geoOut.measured =>
    LET W == geoIn.image.width
        H == geoIn.image.height
        b == geoOut.bbox
        c == geoOut.region
    IN  /\ 0 <= b.x /\ 0 <= b.y
        /\ b.x + b.width <= W /\ b.y + b.height <= H
        /\ 0 <= c.x1 /\ 0 <= c.y1
        /\ c.x1 + PySliceLen(c.x1, c.x2, W) <= W
        /\ c.y1 + PySliceLen(c.y1, c.y2, H) <= H
        /\ c.x2 <= W /\ c.y2 <= H

\* the padding reaches past all four edges and the region is cut to the image
C18_Witness ==
  /\ geoOut.measured
  /\ geoIn.padding > 0
  /\ geoOut.bbox.x - geoIn.padding < 0
  /\ geoOut.bbox.y - geoIn.padding < 0
  /\ geoOut.bbox.x + geoOut.bbox.width + geoIn.padding > geoIn.image.width
  /\ geoOut.bbox.y + geoOut.bbox.height + geoIn.padding > geoIn.image.height
  /\ geoOut.bbox.width > 0
  /\ geoOut.region = [x1 |-> 0, y1 |-> 0,
                      x2 |-> geoIn.image.width, y2 |-> geoIn.image.height]

\* the box of detection i is under the minimum on one side
C19_Small(i) == DetBox(i).width < MinBoxSide \/ DetBox(i).height < MinBoxSide

\* C19: a detection whose pixel width or height is below 50 px is discarded
\* before any crop, feature extraction or classification: no call is made for
\* it, and every returned result has width >= 50 and height >= 50.
C19_MinimumSize ==
  PipelineRan =>
    /\ \A i \in InCap : C19_Small(i) =>
         /\ \A j \in 1..Len(calls) : calls[j].detection # i
         /\ \A k \in 1..Len(result.detections) : ~ResultOf(result.detections[k], i)
    /\ \A k \in 1..Len(result.detections) :
         /\ result.detections[k].bbox.width >= MinBoxSide
         /\ result.detections[k].bbox.height >= MinBoxSide

\* a box wide enough but not high enough is discarded between two that are kept
C19_Witness ==
  /\ PipelineRan
  /\ Len(result.detections) = 2
  /\ \E i \in InCap :
       /\ DetBox(i).width >= MinBoxSide
       /\ DetBox(i).height < MinBoxSide
       /\ ~PreprocessRaises(Dets[i].crop)
       /\ 1 < i /\ i < Len(Dets)

\* C14: each lazily constructed shared instance is constructed at most once,
\* also when several callers are in the getter before the first construction
\* has completed, and all callers receive the same instance.
C14_ConstructedOnce ==
  /\ constructed.lazy <= 1
  /\ constructed.total = constructed.lazy =>
       \A t, u \in DOMAIN thread :
         (thread[t].got # 0 /\ thread[u].got # 0) => thread[t].got = thread[u].got

FrameAnswered ==
  /\ request.endpoint = "classify_frame"
  /\ response # NoResponse
  /\ inference_service # None
  /\ request.upload = "ok"
  /\ ValidateImage(request.image, MinImageSide, MinImageSide)
\* process_image, called directly, has returned
DirectReturned == request.endpoint = "process_image returned"
\* the detector found nothing, and did not fail
NothingDetected == ~request.yolo.raises /\ request.yolo.boxes = <<>>

\* C22: when the detector returns an empty list for a valid image the request
\* succeeds: process_image returns an empty detections list and no 'error'
\* key, and the API reports success with num_detections = 0.
C22_EmptyDetectionsSucceed ==
  /\ (FrameAnswered /\ NothingDetected) =>
       /\ result.detections = <<>>
       /\ result.error = NoKey
       /\ response.status = 200
       /\ response.success
       /\ response.num_detections = 0
  /\ (DirectReturned /\ IsArray(request.image) /\ NothingDetected
        /\ ValidateImage(request.image, MinImageSide, MinImageSide)) =>
       /\ result.detections = <<>>
       /\ result.error = NoKey

\* a valid frame on which the detector finds nothing is answered 200
C22_Witness ==
  /\ FrameAnswered
  /\ NothingDetected
  /\ response.status = 200
  /\ result.message = "No objects detected in image"

\* the call cannot run the pipeline: no array, or an image under 224x224
C28_Failed ==
  \/ ~IsArray(request.image)
  \/ ~ValidateImage(request.image, MinImageSide, MinImageSide)

\* C28: process_image never raises: an image below 224x224 or an exception
\* outside the per-detection handler is returned as a dictionary with an
\* empty detections list and an 'error' key, the API answers a dictionary
\* with an 'error' key with a non-success response, and no failed call
\* returns a dictionary without 'error'.
C28_FailureIsErrorDict ==
  /\ DirectReturned =>
       /\ "detections" \in DOMAIN result
       /\ C28_Failed <=> result.error # NoKey
       /\ C28_Failed => result.detections = <<>>
  /\ (request.endpoint = "classify_frame" /\ response.status \in {200, 500}) =>
       /\ result.error # NoKey => (response.status = 500 /\ ~response.success)
       /\ response.status = 200 => result.error = NoKey

\* a direct call with an image under 224x224 has returned its error dictionary
C28_Witness ==
  /\ DirectReturned
  /\ IsArray(request.image)
  /\ ~ValidateImage(request.image, MinImageSide, MinImageSide)
  /\ request.yolo.boxes # <<>>
  /\ result.error = "Image too small (minimum 224x224 required)"

\* C29: if startup stored no inference service, the service stays not loaded
\* for its whole lifetime: every classify-frame request is answered 503 and
\* no pipeline step runs, /health reports ml_models = "not_loaded", and it
\* reports "loaded" only if startup stored an inference service.
C29_NotLoadedForLife ==
  /\ [](( started /\ inference_service = None /\ response # NoResponse) =>
          /\ request.endpoint = "classify_frame" =>
               (response.status = 503 /\ calls = <<>>)
          /\ request.endpoint = "health" => response.ml_models = "not_loaded")
  /\ []((request.endpoint = "health" /\ response # NoResponse
           /\ response.ml_models = "loaded") => inference_service # None)
  /\ [][started => inference_service' = inference_service]_vars

\* startup stored nothing and a frame with detections has been answered 503
C29_Witness ==
  /\ started
  /\ inference_service = None
  /\ request.endpoint = "classify_frame"
  /\ request.upload = "ok"
  /\ request.yolo.boxes # <<>>
  /\ response.status = 503

\* the members an ensemble call can use, in the order they were loaded
RECURSIVE UsableInLoadOrder(_)
UsableInLoadOrder(names) ==
  IF names = <<>> THEN <<>>
  ELSE (IF Head(names) \in Usable THEN <<Head(names)>> ELSE <<>>)
         \o UsableInLoadOrder(Tail(names))

\* C23: the classifiers contributing to an ensemble are evaluated, and listed
\* in models_used and individual_results, in load order, whatever the order
\* of the keys of the features.
C23_LoadOrder ==
  (EnsembleCall /\ svmResult.ok) =>
    /\ svmResult.models_used = UsableInLoadOrder(models)
    /\ \A j \in DOMAIN svmResult.individual_results :
         svmResult.individual_results[j].model_used = svmResult.models_used[j]

\* all four models answer; load order is not the priority order
C23_Witness ==
  /\ EnsembleCall
  /\ svmResult.ok
  /\ svmResult.models_used =
       <<"mobilenetv3_poly", "mobilenetv3_rbf", "resnet50_poly", "resnet50_rbf">>

\* the value of dict d at key k, or -1 when d has no such key
C25_Get(d, k) ==
  IF InSeq(k, d.keys) THEN d.vals[CHOOSE i \in DOMAIN d.keys : d.keys[i] = k] ELSE -1

\* C25: in every result the confidence is the per-category confidence of the
\* returned category, also when predict and the argmax of the probabilities
\* disagree.
C25_ConfidenceOfPrediction ==
  (Returned /\ svmResult.ok) =>
    svmResult.confidence = C25_Get(svmResult.probabilities, svmResult.prediction)

\* C26: a member that raises during ensemble prediction is skipped and the
\* others still contribute: the mean, models_used and num_models are over
\* exactly the members that succeeded, and the ensemble fails only when no
\* member succeeded.
C26_FailedMemberSkipped ==
  EnsembleCall =>
    /\ svmResult.ok <=> Usable # {}
    /\ svmResult.ok =>
         /\ svmResult.models_used = UsableInLoadOrder(models)
         /\ svmResult.num_models = Cardinality(Usable)
         /\ Len(svmResult.individual_results) = Cardinality(Usable)

\* C24: batch processing handles the images one after the other and
\* independently: a failure for one image does not abort the batch, and the
\* output has exactly one entry per input image, in input order, an empty
\* entry for a failed image.
C24_BatchIndependent ==
  (batchOut.returned /\ batchIn.extractor_loads) =>
    /\ ~batchOut.raised
    /\ Len(batchOut.results) = Len(batchIn.images)
    /\ \A i \in DOMAIN batchIn.images :
         IF \/ batchIn.images[i] \in {"bad_shape", "bad_forward"}
            \/ batchIn.model_name = "densenet"
         THEN batchOut.results[i] = EmptyDict
         ELSE /\ batchOut.results[i].keys # <<>>
              /\ \A k \in DOMAIN batchOut.results[i].vals :
                   batchOut.results[i].vals[k][1] = batchIn.images[i]

\* a failing image between two good ones: three entries, the middle one empty
C24_Witness ==
  /\ batchOut.returned
  /\ batchIn.images = <<"imgB", "bad_forward", "imgA">>
  /\ batchIn.model_name = "both"
  /\ Len(batchOut.results) = 3
  /\ batchOut.results[2] = EmptyDict
  /\ batchOut.results[3].keys = <<"resnet50", "mobilenetv3">>

\* /api/classify has answered the request in hand
ClassifyAnswered == apiRequest.endpoint = "classify" /\ apiResponse # NoApiResponse
\* the request names a model that is not loaded
NamesUnloaded == apiRequest.model_name # None /\ ~InSeq(apiRequest.model_name, models)
\* the loaded models of backbone b, in load order
RECURSIVE OfBackbone(_, _)
OfBackbone(names, b) ==
  IF names = <<>> THEN <<>>
  ELSE (IF CnnBackbone(Head(names)) = b THEN <<Head(names)>> ELSE <<>>)
         \o OfBackbone(Tail(names), b)
RECURSIVE Answering(_, _)
Answering(names, sample) ==
  IF names = <<>> THEN <<>>
  ELSE (IF ModelRaises(Head(names), sample) THEN <<>> ELSE <<Head(names)>>)
         \o Answering(Tail(names), sample)

\* C21: a request that names a model identifier that is not loaded fails with
\* an error before any feature extraction or classification runs, and is
\* never answered with a prediction of another model.
C21_UnknownModelRejected ==
  (ClassifyAnswered /\ NamesUnloaded) =>
    /\ ~apiResponse.success
    /\ apiResponse.status \in {400, 500}
    /\ (apiRequest.file.filename /\ apiRequest.file.type_ok
          /\ apiRequest.file.content \in {"imgA", "bad_forward"}) => apiResponse.status = 400
    /\ \A i \in DOMAIN apiCalls : apiCalls[i] \notin {"extract_features", "predict"}

\* an unloaded model is named with use_ensemble set while two loaded models
\* could have answered for the image: the request is refused
C21_Witness ==
  /\ ClassifyAnswered
  /\ apiRequest.model_name = "resnet50_rbf"
  /\ models = <<"mobilenetv3_poly", "resnet50_poly">>
  /\ apiRequest.use_ensemble
  /\ apiRequest.file.content = "imgA"
  /\ apiRequest.sample = "mix"
  /\ labelKind = "name"
  /\ apiResponse.status = 400
  /\ apiCalls = <<"validate_image_bytes", "preprocess_image">>

C30_ValidationIs400 ==
  (apiResponse # NoApiResponse /\ apiRequest.file.filename /\ apiRequest.file.type_ok
     /\ apiRequest.file.content = "invalid") =>
    apiResponse.status = 400

====
